---- MODULE Spec2Model ----
(***************************************************************************)
(* Model of nomoc.cpp: the DataModel row store, the AddRowCommand pushed   *)
(* on the QUndoStack by the "Add Row" handler, and the Worker / QThread    *)
(* pair created by the "Run Task" handler.                                 *)
(***************************************************************************)
EXTENDS Integers, Sequences, FiniteSets, TLC

(* ------------------------------------------------------------------ *)
(* Bounds of the model                                                 *)
(* ------------------------------------------------------------------ *)
\* number of AddRowCommand objects ever allocated in one behaviour
MaxCmds == 6
\* length of the row store in the behaviours that call it directly
MaxRows == 3

\* number of events the primary context's queue holds in the model
MaxQueue == 2

\* in the behaviours with two runs, cancel() is called on a run that has
\* emitted at most this many progress values
MaxCancelAt == 1

\* values QTime::currentTime().toString() may return at a click
Times == {"08:00:00", "08:00:01"}

\* the Task Runs of one behaviour: each is one click on "Run Task"
Runs == {1, 2}

\* the bound of the loop of Worker::run
MaxProgress == 100

VARIABLES
    rows,          \* DataModel::rows, a sequence of QStringList
    owner,         \* for each row, the command that inserted it (0: a direct call)
    command_list,  \* QUndoStack: the commands, in push order
    index,         \* QUndoStack: the cursor
    nextCmd,       \* identity given to the next `new AddRowCommand`
    deleted,       \* identities of the commands the stack has deleted
    calls,         \* the row-store calls made by the latest handler, in order
    lastOp,        \* the latest handler
    prevOp,        \* the handler before it
    prev2Op,       \* the handler before that
    preRows,       \* DataModel::rows as they were when the latest handler started
    wpc,           \* per run: where the run's thread is
    i,             \* per run: the loop variable of Worker::run
    stop,          \* per run: Worker::stop
    workerObj,     \* per run: the Worker object ("none", "alive", "deleted")
    threadObj,     \* per run: the QThread object ("none", "alive", "deleted")
    pendingDelete, \* per run: a deferred delete of the worker waits in its thread
    quitFlag,      \* per run: QThread::quit has been called on the thread
    mainQueue,     \* the events posted to the primary context, oldest first
    status,        \* the text of the status label
    lastProgress,  \* per run: the latest value emitted by progress(int), -1 if none
    nProgress,     \* per run: how many times progress(int) was emitted
    nFinished,     \* per run: how many times Worker::finished was emitted
    lastReceived,  \* per run: the latest value the progress handler was called with
    nReceived,     \* per run: how many times the progress handler was called
    cancelMark     \* per run: lastProgress at the first call of cancel()

undoVars == <<rows, owner, command_list, index, nextCmd, deleted, calls,
              lastOp, prevOp, prev2Op, preRows>>

taskVars == <<wpc, i, stop, workerObj, threadObj, pendingDelete, quitFlag,
              mainQueue, status, lastProgress, nProgress, nFinished,
              lastReceived, nReceived, cancelMark>>

vars == <<rows, owner, command_list, index, nextCmd, deleted, calls,
          lastOp, prevOp, prev2Op, preRows,
          wpc, i, stop, workerObj, threadObj, pendingDelete, quitFlag,
          mainQueue, status, lastProgress, nProgress, nFinished,
          lastReceived, nReceived, cancelMark>>

(* ------------------------------------------------------------------ *)
(* Helpers                                                             *)
(* ------------------------------------------------------------------ *)
RECURSIVE number(_)
\* QString::number(int) for n >= 0: the decimal digits, most significant first
number(n) == IF n < 10 THEN <<n>> ELSE number(n \div 10) \o <<n % 10>>

Front(s) == SubSeq(s, 1, Len(s) - 1)

Last(s) == s[Len(s)]

\* the rows (QStringList) held by a sequence of commands
RowsOf(cmds) == [k \in 1..Len(cmds) |-> cmds[k].row]

\* DataModel::rowCount
rowCount(rs) == Len(rs)

(* ------------------------------------------------------------------ *)
(* DataModel                                                           *)
(* ------------------------------------------------------------------ *)
\* a store that inserts at the front
insertRowDataFront(rs, r) ==
    [rows    |-> <<r>> \o rs,
     op      |-> "insertRowData",
     ret     |-> "void",
     signals |-> <<[sig |-> "beginInsertRows", first |-> 0, last |-> 0],
                   [sig |-> "endInsertRows",   first |-> 0, last |-> 0]>>]

insertRowData(rs, r) ==
    [rows    |-> Append(rs, r),
     op      |-> "insertRowData",
     ret     |-> "void",
     signals |-> <<[sig |-> "beginInsertRows", first |-> Len(rs), last |-> Len(rs)],
                   [sig |-> "endInsertRows",   first |-> Len(rs), last |-> Len(rs)]>>]

\* a store that removes its first row
removeFirstRow(rs) ==
    IF rs = <<>>
    THEN [rows |-> rs, op |-> "removeLastRow", ret |-> FALSE, signals |-> <<>>]
    ELSE [rows    |-> Tail(rs),
          op      |-> "removeLastRow",
          ret     |-> TRUE,
          signals |-> <<[sig |-> "beginRemoveRows", first |-> 0, last |-> 0],
                        [sig |-> "endRemoveRows",   first |-> 0, last |-> 0]>>]

\* a store that does not test for emptiness
removeLastRowUnchecked(rs) ==
    [rows    |-> Front(rs),
     op      |-> "removeLastRow",
     ret     |-> TRUE,
     signals |-> <<[sig |-> "beginRemoveRows", first |-> Len(rs) - 1, last |-> Len(rs) - 1],
                   [sig |-> "endRemoveRows",   first |-> Len(rs) - 1, last |-> Len(rs) - 1]>>]

removeLastRow(rs) ==
    IF rs = <<>>
    THEN [rows |-> rs, op |-> "removeLastRow", ret |-> FALSE, signals |-> <<>>]
    ELSE [rows    |-> Front(rs),
          op      |-> "removeLastRow",
          ret     |-> TRUE,
          signals |-> <<[sig |-> "beginRemoveRows", first |-> Len(rs) - 1, last |-> Len(rs) - 1],
                        [sig |-> "endRemoveRows",   first |-> Len(rs) - 1, last |-> Len(rs) - 1]>>]

\* what a call leaves in `calls`
CallOf(res, who) == [op |-> res.op, ret |-> res.ret, signals |-> res.signals, by |-> who]

(* ------------------------------------------------------------------ *)
(* AddRowCommand                                                       *)
(* ------------------------------------------------------------------ *)
\* AddRowCommand::redo
CmdRedo(rs, cmd) == insertRowData(rs, cmd.row)

\* AddRowCommand::undo
CmdUndo(rs, cmd) == removeLastRow(rs)

\* the owners of the rows after a removeLastRow that returned `ret`
OwnerAfterRemove(ow, ret) == IF ret THEN Front(ow) ELSE ow

(* ------------------------------------------------------------------ *)
(* Init                                                                *)
(* ------------------------------------------------------------------ *)
UndoInit ==
    /\ rows = <<>>
    /\ owner = <<>>
    /\ command_list = <<>>
    /\ index = 0
    /\ nextCmd = 1
    /\ deleted = {}
    /\ calls = <<>>
    /\ lastOp = "none"
    /\ prevOp = "none"
    /\ prev2Op = "none"
    /\ preRows = <<>>

TaskInit ==
    /\ wpc = [r \in Runs |-> "none"]
    /\ i = [r \in Runs |-> 0]
    /\ stop = [r \in Runs |-> FALSE]
    /\ workerObj = [r \in Runs |-> "none"]
    /\ threadObj = [r \in Runs |-> "none"]
    /\ pendingDelete = [r \in Runs |-> FALSE]
    /\ quitFlag = [r \in Runs |-> FALSE]
    /\ mainQueue = <<>>
    /\ status = <<"Idle">>
    /\ lastProgress = [r \in Runs |-> -1]
    /\ nProgress = [r \in Runs |-> 0]
    /\ nFinished = [r \in Runs |-> 0]
    /\ lastReceived = [r \in Runs |-> -1]
    /\ nReceived = [r \in Runs |-> 0]
    /\ cancelMark = [r \in Runs |-> -1]

Init == UndoInit /\ TaskInit

(* ------------------------------------------------------------------ *)
(* The "Add Row" handler: undo.push(new AddRowCommand(&model, {...}))  *)
(* ------------------------------------------------------------------ *)
\* a handler that numbers the rows from 1
NewRowOneBased(rs, t) == <<number(rowCount(rs) + 1), "Item", t>>

\* the QStringList built by the handler before the push
NewRow(rs, t) == <<number(rowCount(rs)), "Item", t>>

\* a stack that keeps the commands after the cursor
StackPushKeepTail(cl, idx, cmd) ==
    [command_list |-> SubSeq(cl, 1, idx) \o <<cmd>> \o SubSeq(cl, idx + 1, Len(cl)),
     index        |-> idx + 1,
     dropped      |-> {}]

\* QUndoStack::push: redo the command, drop the commands after the cursor,
\* append the command, move the cursor past it
StackPush(cl, idx, cmd) ==
    [command_list |-> Append(SubSeq(cl, 1, idx), cmd),
     index        |-> idx + 1,
     dropped      |-> {cl[k].cid : k \in (idx + 1)..Len(cl)}]

AddRow(t) ==
    /\ nextCmd <= MaxCmds
    /\ LET cmd == [cid |-> nextCmd, row |-> NewRow(rows, t)]
           res == CmdRedo(rows, cmd)
           st  == StackPush(command_list, index, cmd)
       IN  /\ rows' = res.rows
           /\ owner' = Append(owner, cmd.cid)
           /\ command_list' = st.command_list
           /\ index' = st.index
           /\ deleted' = deleted \cup st.dropped
           /\ calls' = <<CallOf(res, cmd.cid)>>
    /\ nextCmd' = nextCmd + 1
    /\ UNCHANGED taskVars
    /\ prevOp' = lastOp
    /\ prev2Op' = prevOp
    /\ lastOp' = "push"
    /\ preRows' = rows

(* ------------------------------------------------------------------ *)
(* The Undo and Redo menu actions of the QUndoStack                    *)
(* ------------------------------------------------------------------ *)
\* QUndoStack::canUndo / canRedo
canUndo(cl, idx) == idx > 0

canRedo(cl, idx) == idx < Len(cl)

\* an undo that reaches the store whatever the cursor is
UndoActionUnguarded ==
    /\ LET res == removeLastRow(rows)
       IN  /\ rows' = res.rows
           /\ owner' = OwnerAfterRemove(owner, res.ret)
           /\ index' = IF index > 0 THEN index - 1 ELSE 0
           /\ calls' = <<CallOf(res, 0)>>
    /\ prevOp' = lastOp
    /\ prev2Op' = prevOp
    /\ lastOp' = "undo"
    /\ preRows' = rows
    /\ UNCHANGED <<command_list, nextCmd, deleted>>
    /\ UNCHANGED taskVars

UndoAction ==
    /\ IF canUndo(command_list, index)
       THEN LET cmd == command_list[index]
                res == CmdUndo(rows, cmd)
            IN  /\ rows' = res.rows
                /\ owner' = OwnerAfterRemove(owner, res.ret)
                /\ index' = index - 1
                /\ calls' = <<CallOf(res, cmd.cid)>>
       ELSE /\ UNCHANGED <<rows, owner, index>>
            /\ calls' = <<>>
    /\ prevOp' = lastOp
    /\ prev2Op' = prevOp
    /\ lastOp' = "undo"
    /\ preRows' = rows
    /\ UNCHANGED <<command_list, nextCmd, deleted>>
    /\ UNCHANGED taskVars

RedoAction ==
    /\ IF canRedo(command_list, index)
       THEN LET cmd == command_list[index + 1]
                res == CmdRedo(rows, cmd)
            IN  /\ rows' = res.rows
                /\ owner' = Append(owner, cmd.cid)
                /\ index' = index + 1
                /\ calls' = <<CallOf(res, cmd.cid)>>
       ELSE /\ UNCHANGED <<rows, owner, index>>
            /\ calls' = <<>>
    /\ prevOp' = lastOp
    /\ prev2Op' = prevOp
    /\ lastOp' = "redo"
    /\ preRows' = rows
    /\ UNCHANGED <<command_list, nextCmd, deleted>>
    /\ UNCHANGED taskVars

(* ------------------------------------------------------------------ *)
(* Direct calls of the DataModel's mutators                            *)
(* ------------------------------------------------------------------ *)
\* the rows a caller may pass to insertRowData
Records == {<<number(n), "Item", t>> : n \in 0..1, t \in Times}

StoreInsert(r) ==
    /\ Len(rows) < MaxRows
    /\ LET res == insertRowData(rows, r)
       IN  /\ rows' = res.rows
           /\ owner' = Append(owner, 0)
           /\ calls' = <<CallOf(res, 0)>>
    /\ prevOp' = lastOp
    /\ prev2Op' = prevOp
    /\ lastOp' = "insertRowData"
    /\ preRows' = rows
    /\ UNCHANGED <<command_list, index, nextCmd, deleted>>
    /\ UNCHANGED taskVars

StoreRemoveLast ==
    /\ LET res == removeLastRow(rows)
       IN  /\ rows' = res.rows
           /\ owner' = OwnerAfterRemove(owner, res.ret)
           /\ calls' = <<CallOf(res, 0)>>
    /\ prevOp' = lastOp
    /\ prev2Op' = prevOp
    /\ lastOp' = "removeLastRow"
    /\ preRows' = rows
    /\ UNCHANGED <<command_list, index, nextCmd, deleted>>
    /\ UNCHANGED taskVars

StoreNext ==
    \/ \E r \in Records : StoreInsert(r)
    \/ StoreRemoveLast

(* ------------------------------------------------------------------ *)
(* The "Run Task" handler                                              *)
(* ------------------------------------------------------------------ *)
\* new Worker, new QThread, moveToThread, the five connects, thread->start()
RunTask(r) ==
    /\ wpc[r] = "none"
    /\ \A q \in Runs : q < r => wpc[q] # "none"
    /\ workerObj' = [workerObj EXCEPT ![r] = "alive"]
    /\ threadObj' = [threadObj EXCEPT ![r] = "alive"]
    /\ stop' = [stop EXCEPT ![r] = FALSE]
    /\ wpc' = [wpc EXCEPT ![r] = "started"]
    /\ UNCHANGED <<i, pendingDelete, quitFlag, mainQueue, status, lastProgress,
                   nProgress, nFinished, lastReceived, nReceived, cancelMark>>
    /\ UNCHANGED undoVars

(* ------------------------------------------------------------------ *)
(* Worker::run, called by QThread::started in the run's own thread     *)
(* ------------------------------------------------------------------ *)
\* a queued connection posts an event to the receiver's thread
Post(q, ev) == Append(q, ev)

\* int i = 0
RunBegin(r) ==
    /\ wpc[r] = "started"
    /\ i' = [i EXCEPT ![r] = 0]
    /\ wpc' = [wpc EXCEPT ![r] = "check"]
    /\ UNCHANGED <<stop, workerObj, threadObj, pendingDelete, quitFlag, mainQueue,
                   status, lastProgress, nProgress, nFinished, lastReceived,
                   nReceived, cancelMark>>
    /\ UNCHANGED undoVars

\* a loop that does not read the flag
LoopCondNoStop(iv, st) == iv <= MaxProgress

\* i <= 100 && !stop
LoopCond(iv, st) == iv <= MaxProgress /\ ~st

LoopCheck(r) ==
    /\ wpc[r] = "check"
    /\ wpc' = [wpc EXCEPT ![r] = IF LoopCond(i[r], stop[r]) THEN "body" ELSE "finish"]
    /\ UNCHANGED <<i, stop, workerObj, threadObj, pendingDelete, quitFlag, mainQueue,
                   status, lastProgress, nProgress, nFinished, lastReceived,
                   nReceived, cancelMark>>
    /\ UNCHANGED undoVars

\* i++
LoopIncr(iv) == iv + 1

\* QThread::msleep(50); emit progress(i); i++
LoopBody(r) ==
    /\ wpc[r] = "body"
    /\ Len(mainQueue) < MaxQueue
    /\ mainQueue' = Post(mainQueue, [kind |-> "progress", run |-> r, p |-> i[r]])
    /\ lastProgress' = [lastProgress EXCEPT ![r] = i[r]]
    /\ nProgress' = [nProgress EXCEPT ![r] = @ + 1]
    /\ i' = [i EXCEPT ![r] = LoopIncr(@)]
    /\ wpc' = [wpc EXCEPT ![r] = "check"]
    /\ UNCHANGED <<stop, workerObj, threadObj, pendingDelete, quitFlag, status,
                   nFinished, lastReceived, nReceived, cancelMark>>
    /\ UNCHANGED undoVars

\* a run whose finished() is not connected to QThread::quit
RunFinishNoQuit(r) ==
    /\ wpc[r] = "finish"
    /\ nFinished' = [nFinished EXCEPT ![r] = @ + 1]
    /\ pendingDelete' = [pendingDelete EXCEPT ![r] = TRUE]
    /\ wpc' = [wpc EXCEPT ![r] = "exec"]
    /\ UNCHANGED <<i, stop, workerObj, threadObj, quitFlag, mainQueue, status,
                   lastProgress, nProgress, lastReceived, nReceived, cancelMark>>
    /\ UNCHANGED undoVars

\* emit finished(): QThread::quit is queued to the primary context (the QThread
\* object lives there), QObject::deleteLater is called directly on the worker;
\* run() returns and the thread enters its event loop
RunFinish(r) ==
    /\ wpc[r] = "finish"
    /\ Len(mainQueue) < MaxQueue
    /\ mainQueue' = Post(mainQueue, [kind |-> "quit", run |-> r, p |-> 0])
    /\ nFinished' = [nFinished EXCEPT ![r] = @ + 1]
    /\ pendingDelete' = [pendingDelete EXCEPT ![r] = TRUE]
    /\ wpc' = [wpc EXCEPT ![r] = "exec"]
    /\ UNCHANGED <<i, stop, workerObj, threadObj, quitFlag, status, lastProgress,
                   nProgress, lastReceived, nReceived, cancelMark>>
    /\ UNCHANGED undoVars

\* the thread's event loop handles the deferred delete of the worker
ThreadDeleteWorker(r) ==
    /\ wpc[r] = "exec"
    /\ pendingDelete[r]
    /\ workerObj' = [workerObj EXCEPT ![r] = "deleted"]
    /\ pendingDelete' = [pendingDelete EXCEPT ![r] = FALSE]
    /\ UNCHANGED <<wpc, i, stop, threadObj, quitFlag, mainQueue, status,
                   lastProgress, nProgress, nFinished, lastReceived, nReceived,
                   cancelMark>>
    /\ UNCHANGED undoVars

\* the event loop returns after quit(); the thread emits QThread::finished
\* (deleteLater of the QThread object, queued to the primary context) and
\* hands out the deferred deletes that are still pending
ThreadExit(r) ==
    /\ wpc[r] = "exec"
    /\ quitFlag[r]
    /\ Len(mainQueue) < MaxQueue
    /\ mainQueue' = Post(mainQueue, [kind |-> "deleteLater", run |-> r, p |-> 0])
    /\ workerObj' = [workerObj EXCEPT ![r] = IF pendingDelete[r] THEN "deleted" ELSE @]
    /\ pendingDelete' = [pendingDelete EXCEPT ![r] = FALSE]
    /\ wpc' = [wpc EXCEPT ![r] = "done"]
    /\ UNCHANGED <<i, stop, threadObj, quitFlag, status, lastProgress, nProgress,
                   nFinished, lastReceived, nReceived, cancelMark>>
    /\ UNCHANGED undoVars

(* ------------------------------------------------------------------ *)
(* Worker::cancel, called from another thread on a live worker         *)
(* ------------------------------------------------------------------ *)
\* a flag shared by all the workers
CancelShared(r) ==
    /\ workerObj[r] = "alive"
    /\ ~stop[r]
    /\ stop' = [q \in Runs |-> TRUE]
    /\ cancelMark' = [cancelMark EXCEPT ![r] = lastProgress[r]]
    /\ UNCHANGED <<wpc, i, workerObj, threadObj, pendingDelete, quitFlag, mainQueue,
                   status, lastProgress, nProgress, nFinished, lastReceived,
                   nReceived>>
    /\ UNCHANGED undoVars

Cancel(r) ==
    /\ workerObj[r] = "alive"
    /\ ~stop[r]
    /\ stop' = [stop EXCEPT ![r] = TRUE]
    /\ cancelMark' = [cancelMark EXCEPT ![r] = lastProgress[r]]
    /\ UNCHANGED <<wpc, i, workerObj, threadObj, pendingDelete, quitFlag, mainQueue,
                   status, lastProgress, nProgress, nFinished, lastReceived,
                   nReceived>>
    /\ UNCHANGED undoVars

(* ------------------------------------------------------------------ *)
(* The event loop of the primary context                               *)
(* ------------------------------------------------------------------ *)
\* an event loop that handles the newest event first
NextEventNewest(q) == Len(q)

\* the event the loop handles next
NextEvent(q) == 1

Remove(q, k) == SubSeq(q, 1, k - 1) \o SubSeq(q, k + 1, Len(q))

MainDispatch ==
    /\ mainQueue # <<>>
    /\ LET k  == NextEvent(mainQueue)
           ev == mainQueue[k]
           r  == ev.run
       IN  \/ /\ ev.kind = "progress"
              \* status->setText(QString("Progress %1%").arg(p))
              /\ status' = <<"Progress ", number(ev.p), "%">>
              /\ lastReceived' = [lastReceived EXCEPT ![r] = ev.p]
              /\ nReceived' = [nReceived EXCEPT ![r] = @ + 1]
              /\ mainQueue' = Remove(mainQueue, k)
              /\ UNCHANGED <<quitFlag, threadObj>>
           \/ /\ ev.kind = "quit"
              /\ quitFlag' = [quitFlag EXCEPT ![r] = TRUE]
              /\ mainQueue' = Remove(mainQueue, k)
              /\ UNCHANGED <<status, lastReceived, nReceived, threadObj>>
           \/ /\ ev.kind = "deleteLater"
              /\ mainQueue' = Post(Remove(mainQueue, k),
                                   [kind |-> "deferredDelete", run |-> r, p |-> 0])
              /\ UNCHANGED <<status, lastReceived, nReceived, quitFlag, threadObj>>
           \/ /\ ev.kind = "deferredDelete"
              /\ threadObj' = [threadObj EXCEPT ![r] = "deleted"]
              /\ mainQueue' = Remove(mainQueue, k)
              /\ UNCHANGED <<status, lastReceived, nReceived, quitFlag>>
    /\ UNCHANGED <<wpc, i, stop, workerObj, pendingDelete, lastProgress, nProgress,
                   nFinished, cancelMark>>
    /\ UNCHANGED undoVars

RunStep(r) ==
    \/ RunBegin(r)
    \/ LoopCheck(r)
    \/ LoopBody(r)
    \/ RunFinish(r)
    \/ ThreadDeleteWorker(r)
    \/ ThreadExit(r)

\* one click on "Run Task"; cancel() may be called at any time of the run
FirstRun == CHOOSE r \in Runs : \A q \in Runs : r <= q

OneNext ==
    \/ RunTask(FirstRun)
    \/ RunStep(FirstRun)
    \/ Cancel(FirstRun)
    \/ MainDispatch

SpecOne == Init /\ [][OneNext]_vars

\* the scheduler runs every thread that can run, and the event loop of the
\* primary context handles every posted event
OneFairness ==
    /\ WF_vars(RunStep(FirstRun))
    /\ WF_vars(MainDispatch)

SpecOneFair == SpecOne /\ OneFairness

\* two clicks on "Run Task"; cancel() is called early in a run
CancelEarly(r) == nProgress[r] <= MaxCancelAt /\ Cancel(r)

TwoNext ==
    \/ \E r \in Runs : RunTask(r)
    \/ \E r \in Runs : RunStep(r)
    \/ \E r \in Runs : CancelEarly(r)
    \/ MainDispatch

SpecTwo == Init /\ [][TwoNext]_vars

SpecStore == Init /\ [][StoreNext]_vars

UndoNext ==
    \/ \E t \in Times : AddRow(t)
    \/ UndoAction
    \/ RedoAction

SpecUndo == Init /\ [][UndoNext]_vars

\* the program: the handlers of the window, the runs' threads and the event loop
Next ==
    \/ \E t \in Times : AddRow(t)
    \/ UndoAction
    \/ RedoAction
    \/ \E r \in Runs : RunTask(r)
    \/ \E r \in Runs : RunStep(r)
    \/ MainDispatch

Spec == Init /\ [][Next]_vars

(* ================================================================== *)
(* Properties                                                          *)
(* ================================================================== *)
RECURSIVE Replay(_)
\* the store obtained by redoing the commands, in order, on an empty store
Replay(cmds) ==
    IF cmds = <<>> THEN <<>>
    ELSE CmdRedo(Replay(Front(cmds)), Last(cmds)).rows

\* the commands before the cursor
Effective == SubSeq(command_list, 1, index)

(* C1: after any sequence of Add Row, undo and redo the row store holds, in
   order, the rows of the commands at positions [0, cursor) of the history,
   which is what redoing only those commands on an empty store gives; the
   length of the store equals the cursor. *)
C1_StoreIsEffectiveHistory ==
    /\ rows = RowsOf(Effective)
    /\ rows = Replay(Effective)
    /\ Len(rows) = index

C1_Witness ==
    /\ lastOp = "redo" /\ prevOp = "undo" /\ calls # <<>>
    /\ deleted # {}
    /\ index >= 2 /\ index < Len(command_list)

(* C2: an undo right after a push leaves the row store as it was before the
   push. *)
C2_PushUndoRoundTrip ==
    [][(lastOp = "push" /\ lastOp' = "undo") => rows' = preRows]_vars

C2_Witness ==
    /\ lastOp = "undo" /\ prevOp = "push" /\ calls # <<>>
    /\ Len(rows) >= 2

\* the identities of the commands in the history
Held == {command_list[k].cid : k \in 1..Len(command_list)}

(* C3: after an undo followed by a push the cursor is at the end of the
   history, a redo that follows changes neither the store nor the history,
   and a command dropped from the history stays dropped: it is never in the
   history again and no row of the store was inserted by it. *)
C3_RedoTailDiscarded ==
    /\ []((prevOp = "undo" /\ lastOp = "push") => index = Len(command_list))
    /\ [][(prevOp = "undo" /\ lastOp = "push" /\ lastOp' = "redo")
            => (/\ rows' = rows
                /\ command_list' = command_list
                /\ index' = index
                /\ calls' = <<>>)]_vars
    /\ [](\A k \in 1..Len(owner) : owner[k] \notin deleted)
    /\ [](Held \cap deleted = {})
    /\ [][deleted \subseteq deleted']_vars

C3_Witness ==
    /\ lastOp = "redo" /\ prevOp = "push" /\ prev2Op = "undo"
    /\ deleted # {}
    /\ calls = <<>>
    /\ rows # <<>>

\* the signals of one removal of row k
RemovalOf(k) == <<[sig |-> "beginRemoveRows", first |-> k, last |-> k],
                  [sig |-> "endRemoveRows",   first |-> k, last |-> k]>>

(* C4: removeLastRow on an empty store returns false, leaves the store empty
   and emits no signal; on a non-empty store it returns true, removes the
   last row only and emits one beginRemoveRows/endRemoveRows pair for the
   last index. *)
C4_RemoveLastRow ==
    [][lastOp' = "removeLastRow" =>
         /\ Len(calls') = 1
         /\ calls'[1].op = "removeLastRow"
         /\ IF rows = <<>>
            THEN /\ calls'[1].ret = FALSE
                 /\ rows' = <<>>
                 /\ calls'[1].signals = <<>>
            ELSE /\ calls'[1].ret = TRUE
                 /\ rows' = SubSeq(rows, 1, Len(rows) - 1)
                 /\ calls'[1].signals = RemovalOf(Len(rows) - 1)]_vars

C4_Witness ==
    /\ lastOp = "removeLastRow" /\ prevOp = "removeLastRow"
    /\ prev2Op = "insertRowData"
    /\ preRows = <<>>
    /\ calls[1].ret = FALSE

(* C9: the cursor is always in [0, length of the history]; undo with the
   cursor at 0 and redo with the cursor at the end change neither the cursor,
   the history nor the store and call nothing on the store. *)
C9_CursorBoundsAndNoOps ==
    /\ [](index \in 0..Len(command_list))
    /\ [][(lastOp' = "undo" /\ index = 0)
            => (/\ UNCHANGED <<index, command_list, rows>>
                /\ calls' = <<>>)]_vars
    /\ [][(lastOp' = "redo" /\ index = Len(command_list))
            => (/\ UNCHANGED <<index, command_list, rows>>
                /\ calls' = <<>>)]_vars

C9_Witness ==
    /\ lastOp = "undo" /\ prevOp = "undo" /\ prev2Op = "push"
    /\ calls = <<>>
    /\ index = 0 /\ command_list # <<>>

(* C10: the row at index k of the store has the ID number(k); every undo that
   reaches the store finds it non-empty and removes the row its own command
   inserted. *)
C10_IdsArePositions ==
    /\ [](\A k \in 1..Len(rows) : rows[k][1] = number(k - 1))
    /\ [][(lastOp' = "undo" /\ calls' # <<>>)
            => (/\ calls'[1].ret = TRUE
                /\ rows # <<>>
                /\ Last(owner) = calls'[1].by
                /\ Last(rows) = command_list[index].row)]_vars

C10_Witness ==
    /\ lastOp = "undo" /\ calls # <<>>
    /\ deleted # {}
    /\ Len(rows) >= 3

(* C5: a cancelled run emits finished() once, and never a progress value
   greater than the one emitted last before cancel() plus one. *)
C5_CancelledRun ==
    /\ [](\A r \in Runs : nFinished[r] <= 1)
    /\ [](\A r \in Runs : stop[r] => lastProgress[r] <= cancelMark[r] + 1)
    /\ \A r \in Runs : stop[r] ~> (nFinished[r] = 1)

C5_Witness ==
    /\ stop[FirstRun]
    /\ nFinished[FirstRun] = 1
    /\ cancelMark[FirstRun] = -1
    /\ lastProgress[FirstRun] = 0

(* C6: with two runs, each run's progress values are strictly increasing, and
   a step or a cancellation of one run leaves the counter, the flag and the
   emitted values of the other run unchanged. *)
C6_RunsIndependent ==
    /\ [][\A r \in Runs : lastProgress'[r] # lastProgress[r]
                            => lastProgress'[r] > lastProgress[r]]_vars
    /\ [][\A r \in Runs : \A o \in Runs \ {r} :
            (RunStep(r) \/ Cancel(r))
               => (/\ i'[o] = i[o]
                   /\ stop'[o] = stop[o]
                   /\ lastProgress'[o] = lastProgress[o]
                   /\ nProgress'[o] = nProgress[o])]_vars

C6_Witness ==
    /\ stop[1] /\ ~stop[2]
    /\ nFinished[1] = 1 /\ lastProgress[1] = 1
    /\ wpc[2] = "body" /\ lastProgress[2] >= 3

\* the run's worker and thread are gone
TornDown(r) ==
    /\ wpc[r] = "done"
    /\ workerObj[r] = "deleted"
    /\ threadObj[r] = "deleted"

(* C7: every launched run eventually emits finished() once, emits no progress
   after it, and then its worker and its thread are deleted and stay so. *)
C7_CompletionAndTeardown ==
    /\ [](\A r \in Runs : nFinished[r] <= 1)
    /\ \A r \in Runs : (wpc[r] # "none") ~> (nFinished[r] = 1 /\ TornDown(r))
    /\ [][\A r \in Runs : nFinished[r] = 1
            => (/\ nFinished'[r] = 1
                /\ nProgress'[r] = nProgress[r]
                /\ lastProgress'[r] = lastProgress[r])]_vars
    /\ [](\A r \in Runs : (workerObj[r] = "deleted" \/ threadObj[r] = "deleted")
                            => nFinished[r] = 1)
    /\ [][\A r \in Runs : TornDown(r) => TornDown(r)']_vars

C7_Witness ==
    /\ TornDown(FirstRun)
    /\ nFinished[FirstRun] = 1
    /\ mainQueue = <<>>

(* C8: the progress values of a run are 0, 1, 2, ... without a gap and at
   most 100; a run that is not cancelled has emitted 0..100 when it emits
   finished(); the progress handler gets the values in the same order. *)
C8_ProgressSequence ==
    /\ [](\A r \in Runs : /\ lastProgress[r] \in -1..100
                          /\ nProgress[r] = lastProgress[r] + 1
                          /\ nReceived[r] = lastReceived[r] + 1
                          /\ lastReceived[r] <= lastProgress[r])
    /\ [][\A r \in Runs : nProgress'[r] # nProgress[r]
            => (/\ nProgress'[r] = nProgress[r] + 1
                /\ lastProgress'[r] = lastProgress[r] + 1
                /\ nFinished[r] = 0)]_vars
    /\ [](\A r \in Runs : (nFinished[r] = 1 /\ ~stop[r])
                            => (lastProgress[r] = 100 /\ nProgress[r] = 101))
    /\ [][\A r \in Runs : nReceived'[r] # nReceived[r]
            => (/\ nReceived'[r] = nReceived[r] + 1
                /\ lastReceived'[r] = lastReceived[r] + 1)]_vars

C8_Witness ==
    /\ nFinished[FirstRun] = 1 /\ ~stop[FirstRun]
    /\ lastReceived[FirstRun] = 100
    /\ status = <<"Progress ", <<1, 0, 0>>, "%">>

====
